---- MODULE Spec2Model ----
(***************************************************************************)
(* A state-machine model of src/test_review/bad_cpp.cpp: one global        *)
(* integer counter and four free functions, each invoked by any thread of  *)
(* the process.  Every function is split at the points where another       *)
(* thread can observe or disturb it: the load and the store of             *)
(* global_counter++, malloc and the store through its result, the read of  *)
(* the uninitialised x.  strcpy works on the caller's own stack frame and  *)
(* is one step.  Undefined behaviour (a store through a null pointer, a    *)
(* write past the stack buffer, a read of an indeterminate value) is a     *)
(* choice among the outcomes a build produces: the process is killed, or   *)
(* the call goes on.                                                       *)
(***************************************************************************)
EXTENDS Integers, Sequences, FiniteSets, TLC

\* ---------------------------------------------------------------- bounds
NumThreads == 2      \* threads of the process in Spec, SeqSpec and FairSpec
MaxRacers == 4       \* largest number of threads in OnceSpec
MaxCalls == 3        \* calls started in one run of Spec, SeqSpec, FairSpec
MaxStrLen == 11      \* longest input text handed to process_string
MaxBlocks == 2       \* blocks the heap can hand out before malloc fails

\* ------------------------------------------------------ program constants
BufSize == 10        \* char buffer[10]
AllocInts == 100     \* malloc(100 * sizeof(int))
StoredValue == 10    \* ptr[0] = 10
Timeout == 3600      \* int timeout = 3600

NULL == 0            \* the null pointer; a block's address is its number
NUL == "NUL"         \* the terminating byte of a C string
Uninit == "uninit"   \* a byte never written

\* An int object: never written (its value indeterminate), or holding v.
IndetInt == [written |-> FALSE, val |-> 0]

IntObj(v) == [written |-> TRUE, val |-> v]
XValues == {-1, 0, 1} \* values a read of an indeterminate int may yield

Threads == 1..NumThreads
Blocks == 1..MaxBlocks

VARIABLES
    global_counter,  \* int global_counter
    pc,              \* pc[t]: where thread t stands
    frame,           \* frame[t]: the automatic storage of t's active call
    heap,            \* the set of allocated blocks
    heapmem,         \* heapmem[b]: block b's size in ints and its element 0
    out,             \* number of messages written by printf
    crashed,         \* "no", or the signal that killed the process
    ncalls,          \* ncalls[t]: calls thread t has started
    rc_done,         \* race_condition calls that have returned
    mi_ok            \* memory_issue calls that obtained a block and returned

vars == <<global_counter, pc, frame, heap, heapmem, out, crashed, ncalls,
          rc_done, mi_ok>>

NoFrame == [fn |-> "none"]

\* ------------------------------------------------------------- helpers
RECURSIVE Total(_, _)
Total(f, S) == IF S = {} THEN 0
               ELSE LET x == CHOOSE y \in S : TRUE
                    IN f[x] + Total(f, S \ {x})

Started == Total(ncalls, DOMAIN ncalls)

\* A C string of n characters and its terminator.
CStr(n) == [i \in 1..(n + 1) |-> IF i <= n THEN "a" ELSE NUL]

\* The texts handed to process_string: empty, one character, the longest
\* that fits, the shortest that does not, and the longest tried.
Inputs == {CStr(n) : n \in {0, 1, BufSize - 1, BufSize, MaxStrLen}}

RECURSIVE StrlenFrom(_, _)
StrlenFrom(s, i) == IF s[i + 1] = NUL THEN i ELSE StrlenFrom(s, i + 1)

strlen(s) == StrlenFrom(s, 0)

EmptyBuffer == [i \in 0..(BufSize - 1) |-> Uninit]

\* strcpy(buffer, input): byte i of the source goes to buffer + i, up to and
\* including the terminator, whatever the size of the destination.  A byte
\* at an index the buffer does not have lands past it.
RECURSIVE StrcpyFrom(_, _, _, _)
StrcpyFrom(buf, past, src, i) ==
    LET c == src[i + 1]
        nb == IF i < BufSize THEN [buf EXCEPT ![i] = c] ELSE buf
        np == IF i < BufSize THEN past ELSE past \cup {i}
    IN IF c = NUL THEN [buffer |-> nb, past |-> np]
       ELSE StrcpyFrom(nb, np, src, i + 1)

\* A copy that stops at the end of the destination.
StrcpyBounded(buf, src) ==
    LET n == IF strlen(src) < BufSize THEN strlen(src) ELSE BufSize - 1
    IN [buffer |-> [i \in 0..(BufSize - 1) |->
                       IF i < n THEN src[i + 1] ELSE IF i = n THEN NUL ELSE buf[i]],
        past |-> {}]

strcpy(buf, src) == StrcpyFrom(buf, {}, src, 0)

Running == crashed = "no"

Idle(t) == t \in DOMAIN pc /\ pc[t] = "idle" /\ Running

\* ------------------------------------------------------------- the calls
\* A thread that stands outside every function enters one of them.
Enter(t, label, fr) ==
    /\ Idle(t)
    /\ pc' = [pc EXCEPT ![t] = label]
    /\ frame' = [frame EXCEPT ![t] = fr]
    /\ ncalls' = [ncalls EXCEPT ![t] = @ + 1]
    /\ UNCHANGED <<global_counter, heap, heapmem, out, crashed, rc_done, mi_ok>>

\* Leaving a function ends the lifetime of its automatic storage.
Leave(t) ==
    /\ pc' = [pc EXCEPT ![t] = "idle"]
    /\ frame' = [frame EXCEPT ![t] = NoFrame]

\* The process is killed by a signal; thread t raised it.
Abort(t, sig) ==
    /\ pc' = [pc EXCEPT ![t] = "aborted"]
    /\ crashed' = sig

\* ------------------------------------------------- process_string (8-12)
PsCall(t) ==
    /\ Started < MaxCalls
    /\ \E input \in Inputs :
          Enter(t, "ps_strcpy",
                [fn |-> "process_string", input |-> input,
                 buffer |-> EmptyBuffer, past |-> {}])

\* strcpy(buffer, input)
PsStrcpy(t) ==
    /\ Running /\ pc[t] = "ps_strcpy"
    /\ LET r == strcpy(frame[t].buffer, frame[t].input)
       IN frame' = [frame EXCEPT ![t].buffer = r.buffer, ![t].past = r.past]
    /\ pc' = [pc EXCEPT ![t] = "ps_ret"]
    /\ UNCHANGED <<global_counter, heap, heapmem, out, crashed, ncalls,
                   rc_done, mi_ok>>

\* A frame whose buffer is static: it outlives the call.
PsReturnStatic(t) ==
    /\ Running /\ pc[t] = "ps_ret"
    /\ pc' = [pc EXCEPT ![t] = "idle"]
    /\ UNCHANGED <<frame, global_counter, heap, heapmem, out, crashed, ncalls,
                   rc_done, mi_ok>>

\* The closing brace.  After a write past the buffer the return is undefined:
\* it may go through, or the smashed stack kills the process.
PsReturn(t) ==
    /\ Running /\ pc[t] = "ps_ret"
    /\ \/ Leave(t) /\ UNCHANGED crashed
       \/ frame[t].past # {} /\ Abort(t, "SIGABRT") /\ UNCHANGED frame
    /\ UNCHANGED <<global_counter, heap, heapmem, out, ncalls, rc_done, mi_ok>>

\* --------------------------------------------------- memory_issue (14-19)
MiCall(t) ==
    /\ Started < MaxCalls
    /\ Enter(t, "mi_malloc", [fn |-> "memory_issue"])

\* malloc with its result tested: a failed allocation returns at once.
MiMallocChecked(t) ==
    /\ Running /\ pc[t] = "mi_malloc"
    /\ \/ /\ heap # Blocks
          /\ LET b == CHOOSE x \in Blocks \ heap :
                          \A y \in Blocks \ heap : x <= y
             IN /\ heap' = heap \cup {b}
                /\ heapmem' = [heapmem EXCEPT ![b] = [ints |-> AllocInts, elem0 |-> IndetInt]]
                /\ frame' = [frame EXCEPT ![t] = [fn |-> "memory_issue", ptr |-> b, stored |-> {}]]
          /\ pc' = [pc EXCEPT ![t] = "mi_store"]
       \/ /\ frame' = [frame EXCEPT ![t] = [fn |-> "memory_issue", ptr |-> NULL, stored |-> {}]]
          /\ pc' = [pc EXCEPT ![t] = "mi_ret"]
          /\ UNCHANGED <<heap, heapmem>>
    /\ UNCHANGED <<global_counter, out, crashed, ncalls, rc_done, mi_ok>>

\* int* ptr = (int*)malloc(100 * sizeof(int)): a fresh block while the heap
\* has one, or the null pointer (always possible; certain once it has none).
MiMalloc(t) ==
    /\ Running /\ pc[t] = "mi_malloc"
    /\ \/ /\ heap # Blocks
          /\ LET b == CHOOSE x \in Blocks \ heap :
                          \A y \in Blocks \ heap : x <= y
             IN /\ heap' = heap \cup {b}
                /\ heapmem' = [heapmem EXCEPT ![b] = [ints |-> AllocInts, elem0 |-> IndetInt]]
                /\ frame' = [frame EXCEPT ![t] = [fn |-> "memory_issue", ptr |-> b, stored |-> {}]]
       \/ /\ frame' = [frame EXCEPT ![t] = [fn |-> "memory_issue", ptr |-> NULL, stored |-> {}]]
          /\ UNCHANGED <<heap, heapmem>>
    /\ pc' = [pc EXCEPT ![t] = "mi_store"]
    /\ UNCHANGED <<global_counter, out, crashed, ncalls, rc_done, mi_ok>>

\* A store that lands in the global counter instead of the block.
MiStoreGlobal(t) ==
    /\ Running /\ pc[t] = "mi_store"
    /\ global_counter' = StoredValue
    /\ frame' = [frame EXCEPT ![t].stored = {frame[t].ptr}]
    /\ pc' = [pc EXCEPT ![t] = "mi_ret"]
    /\ UNCHANGED <<heap, heapmem, out, crashed, ncalls, rc_done, mi_ok>>

\* ptr[0] = 10, made whatever malloc returned.  Through the null pointer the
\* store is undefined: the process is killed, or the call goes on.
MiStore(t) ==
    /\ Running /\ pc[t] = "mi_store"
    /\ frame' = [frame EXCEPT ![t].stored = {frame[t].ptr}]
    /\ \/ /\ frame[t].ptr # NULL
          /\ heapmem' = [heapmem EXCEPT ![frame[t].ptr].elem0 = IntObj(StoredValue)]
          /\ pc' = [pc EXCEPT ![t] = "mi_ret"]
          /\ UNCHANGED crashed
       \/ /\ frame[t].ptr = NULL
          /\ \/ Abort(t, "SIGSEGV")
             \/ pc' = [pc EXCEPT ![t] = "mi_ret"] /\ UNCHANGED crashed
          /\ UNCHANGED heapmem
    /\ UNCHANGED <<global_counter, heap, out, ncalls, rc_done, mi_ok>>

\* A return that releases the block first.
MiReturnFree(t) ==
    /\ Running /\ pc[t] = "mi_ret"
    /\ Leave(t)
    /\ heap' = heap \ {frame[t].ptr}
    /\ mi_ok' = IF frame[t].ptr # NULL THEN mi_ok + 1 ELSE mi_ok
    /\ UNCHANGED <<global_counter, heapmem, out, crashed, ncalls, rc_done>>

\* The closing brace: ptr goes, the block it named stays allocated.
MiReturn(t) ==
    /\ Running /\ pc[t] = "mi_ret"
    /\ Leave(t)
    /\ mi_ok' = IF frame[t].ptr # NULL THEN mi_ok + 1 ELSE mi_ok
    /\ UNCHANGED <<global_counter, heap, heapmem, out, crashed, ncalls, rc_done>>

\* ------------------------------------------------- race_condition (21-24)
RcEnter(t) == Enter(t, "rc_load", [fn |-> "race_condition"])

RcCall(t) == Started < MaxCalls /\ RcEnter(t)

\* The load half of global_counter++.
RcLoad(t) ==
    /\ Running /\ pc[t] = "rc_load"
    /\ frame' = [frame EXCEPT ![t] = [fn |-> "race_condition", tmp |-> global_counter]]
    /\ pc' = [pc EXCEPT ![t] = "rc_store"]
    /\ UNCHANGED <<global_counter, heap, heapmem, out, crashed, ncalls,
                   rc_done, mi_ok>>

\* Values a faulty increment would store.
IncAtomic(tmp, cur) == cur + 1

IncNone(tmp, cur) == tmp

IncDown(tmp, cur) == tmp - 1

\* The value the store half writes: the loaded value plus one, whatever the
\* counter holds by now.
Inc(tmp, cur) == tmp + 1

RcStore(t) ==
    /\ Running /\ pc[t] = "rc_store"
    /\ global_counter' = Inc(frame[t].tmp, global_counter)
    /\ pc' = [pc EXCEPT ![t] = "rc_ret"]
    /\ UNCHANGED <<frame, heap, heapmem, out, crashed, ncalls, rc_done, mi_ok>>

RcReturn(t) ==
    /\ Running /\ pc[t] = "rc_ret"
    /\ Leave(t)
    /\ rc_done' = rc_done + 1
    /\ UNCHANGED <<global_counter, heap, heapmem, out, crashed, ncalls, mi_ok>>

\* ---------------------------------------------- BAD_FUNCTION_NAME (27-36)
\* x given a value where it is declared.
BfCallInit(t) ==
    /\ Started < MaxCalls
    /\ Enter(t, "bf_cmp", [fn |-> "BAD_FUNCTION_NAME", timeout |-> Timeout,
                           x |-> IntObj(0)])

\* int timeout = 3600; int x;
BfCall(t) ==
    /\ Started < MaxCalls
    /\ Enter(t, "bf_cmp", [fn |-> "BAD_FUNCTION_NAME", timeout |-> Timeout,
                           x |-> IndetInt])

\* What a read of x may yield.
ReadInt(x) == IF x.written THEN {x.val} ELSE XValues

\* if (x > 0)
BfCmp(t) ==
    /\ Running /\ pc[t] = "bf_cmp"
    /\ \E v \in ReadInt(frame[t].x) :
          pc' = [pc EXCEPT ![t] = IF v > 0 THEN "bf_printf" ELSE "bf_ret"]
    /\ UNCHANGED <<frame, global_counter, heap, heapmem, out, crashed, ncalls,
                   rc_done, mi_ok>>

\* printf("Undefined behavior")
BfPrintf(t) ==
    /\ Running /\ pc[t] = "bf_printf"
    /\ out' = out + 1
    /\ pc' = [pc EXCEPT ![t] = "bf_ret"]
    /\ UNCHANGED <<frame, global_counter, heap, heapmem, crashed, ncalls,
                   rc_done, mi_ok>>

BfReturn(t) ==
    /\ Running /\ pc[t] = "bf_ret"
    /\ Leave(t)
    /\ UNCHANGED <<global_counter, heap, heapmem, out, crashed, ncalls,
                   rc_done, mi_ok>>

\* ------------------------------------------------------ specifications
InitFor(T) ==
    /\ global_counter = 0
    /\ pc = [t \in T |-> "idle"]
    /\ frame = [t \in T |-> NoFrame]
    /\ heap = {}
    /\ heapmem = [b \in Blocks |-> [ints |-> 0, elem0 |-> IndetInt]]
    /\ out = 0
    /\ crashed = "no"
    /\ ncalls = [t \in T |-> 0]
    /\ rc_done = 0
    /\ mi_ok = 0

Init == InitFor(Threads)

\* The steps of a call in progress on thread t.
Step(t) ==
    \/ PsStrcpy(t)
    \/ PsReturn(t)
    \/ MiMalloc(t)
    \/ MiStore(t)
    \/ MiReturn(t)
    \/ RcLoad(t)
    \/ RcStore(t)
    \/ RcReturn(t)
    \/ BfCmp(t)
    \/ BfPrintf(t)
    \/ BfReturn(t)

Next ==
    \E t \in Threads :
        \/ PsCall(t)
        \/ MiCall(t)
        \/ RcCall(t)
        \/ BfCall(t)
        \/ Step(t)

\* Any thread calls any function at any time.
Spec == Init /\ [][Next]_vars

\* Every thread that is inside a call keeps being scheduled.
FairSpec == Spec /\ \A t \in Threads : WF_vars(Step(t))

InRace(t) == pc[t] \in {"rc_load", "rc_store", "rc_ret"}

\* A call of race_condition made while no other is in progress.
RcCallAlone(t) ==
    /\ \A u \in DOMAIN pc : ~InRace(u)
    /\ RcCall(t)

NextSeq ==
    \E t \in Threads :
        \/ PsCall(t)
        \/ MiCall(t)
        \/ RcCallAlone(t)
        \/ BfCall(t)
        \/ Step(t)

\* As Spec, with no two calls of race_condition overlapping.
SeqSpec == Init /\ [][NextSeq]_vars

InitOnce == \E n \in 1..MaxRacers : InitFor(1..n)

\* A thread's one call of race_condition.
RcCallOnce(t) == ncalls[t] = 0 /\ RcEnter(t)

NextOnce ==
    \E t \in DOMAIN pc :
        \/ RcCallOnce(t)
        \/ RcLoad(t)
        \/ RcStore(t)
        \/ RcReturn(t)

\* N threads, each calling race_condition exactly once.
OnceSpec == InitOnce /\ [][NextOnce]_vars

\* ------------------------------------------------------------ properties
AllIdle == \A t \in DOMAIN pc : pc[t] = "idle"

InString(t) == pc[t] \in {"ps_strcpy", "ps_ret"}

InBadFn(t) == pc[t] \in {"bf_cmp", "bf_printf", "bf_ret"}

\* Thread t has executed strcpy in its current call of process_string.
Copied(t) == frame[t].fn = "process_string" /\ pc[t] # "ps_strcpy"

\* The indices strcpy wrote, inside the buffer and past it.
Written(t) ==
    {i \in 0..(BufSize - 1) : frame[t].buffer[i] # Uninit} \cup frame[t].past

\* Threads inside memory_issue that hold a block obtained from malloc.
Holding ==
    {t \in DOMAIN pc : /\ pc[t] \in {"mi_store", "mi_ret"}
                       /\ frame[t].ptr # NULL}

\* C1: the increment of race_condition is a load followed by a store with
\* nothing to exclude other threads in between: the store writes the loaded
\* value plus one whatever the counter holds by then, so a store made after
\* other stores have raised the counter does not raise it (the update is
\* lost).  The witness is a run of two or more overlapping calls, all
\* returned, that leaves the counter below the number of calls.
C1_StaleStoreLosesUpdate ==
    [][\A t \in Threads :
          (pc[t] = "rc_store" /\ pc'[t] = "rc_ret") =>
              /\ global_counter' = frame[t].tmp + 1
              /\ frame[t].tmp < global_counter =>
                     global_counter' <= global_counter]_vars

C1_Witness == AllIdle /\ rc_done >= 2 /\ global_counter < rc_done

\* C2: process_string's strcpy writes the indices 0..strlen(input) starting
\* at buffer[0], whatever the length; every write is inside the 10-byte
\* buffer exactly when strlen(input) <= 9, and an input of 10 or more
\* characters makes writes at indices >= 10.
C2_CopyBounds ==
    \A t \in Threads :
        Copied(t) =>
            LET n == strlen(frame[t].input)
            IN /\ Written(t) = 0..n
               /\ frame[t].past = {} <=> n <= BufSize - 1
               /\ n >= BufSize => \E i \in frame[t].past : i >= BufSize
               /\ \A i \in frame[t].past : i >= BufSize

C2_Witness ==
    \E t \in Threads :
        /\ pc[t] = "ps_ret"
        /\ strlen(frame[t].input) >= BufSize
        /\ BufSize \in frame[t].past

\* C3: memory_issue never releases what it allocates: the live blocks are
\* exactly those of the calls that obtained one (returned, or still holding
\* it), and no step of the program takes a block away.
C3_BlocksLeak ==
    /\ [](Cardinality(heap) = mi_ok + Cardinality(Holding))
    /\ [][heap \subseteq heap']_vars

C3_Witness == AllIdle /\ mi_ok >= 2 /\ Cardinality(heap) = mi_ok

\* C4: at the comparison x > 0 of BAD_FUNCTION_NAME nothing has been written
\* to x, and from that one state both outcomes are possible: the branch that
\* prints and the branch that does not.
C4_UninitialisedRead ==
    \A t \in Threads :
        (Running /\ pc[t] = "bf_cmp") =>
            /\ ~frame[t].x.written
            /\ ENABLED (BfCmp(t) /\ pc'[t] = "bf_printf")
            /\ ENABLED (BfCmp(t) /\ pc'[t] = "bf_ret")

C4_Witness ==
    \E t, u \in Threads :
        pc[t] = "bf_printf" /\ pc[u] = "bf_ret" /\ out = 0

\* C5: no function has an error path.  memory_issue goes from malloc to the
\* store whatever malloc returned, and the store is made through that
\* pointer, the null pointer included; process_string makes the copy
\* whatever the input; and a call returns only from its closing brace,
\* leaving nothing behind that records an outcome.
C5_NoErrorPath ==
    [][\A t \in Threads :
          /\ (pc[t] = "mi_malloc" /\ pc'[t] # pc[t]) => pc'[t] = "mi_store"
          /\ (pc[t] = "mi_store" /\ pc'[t] # pc[t]) =>
                 frame'[t].stored = {frame[t].ptr}
          /\ (pc[t] = "ps_strcpy" /\ pc'[t] # pc[t]) =>
                 pc'[t] = "ps_ret" /\ frame'[t].buffer[0] # Uninit
          /\ (pc[t] # "idle" /\ pc'[t] = "idle") =>
                 /\ pc[t] \in {"ps_ret", "mi_ret", "rc_ret", "bf_ret"}
                 /\ frame'[t] = NoFrame]_vars

C5_Witness ==
    \E t \in Threads :
        /\ pc[t] \in {"mi_ret", "aborted"}
        /\ frame[t].fn = "memory_issue"
        /\ frame[t].stored = {NULL}

\* C6: the functions share no data: only the store of race_condition changes
\* global_counter, and a step of race_condition changes nothing of the heap,
\* the output or any other thread's frame.
C6_Frame ==
    [][/\ global_counter' # global_counter =>
              \E t \in Threads : pc[t] = "rc_store" /\ pc'[t] = "rc_ret"
       /\ \A t \in Threads :
              (InRace(t) /\ pc'[t] # pc[t]) =>
                  /\ UNCHANGED <<heap, heapmem, out, crashed, mi_ok>>
                  /\ \A u \in Threads \ {t} :
                         frame'[u] = frame[u] /\ pc'[u] = pc[u]]_vars

C6_Witness ==
    /\ global_counter >= 1
    /\ heap # {}
    /\ \E t \in Threads : pc[t] = "ps_ret" /\ frame[t].past = {}

\* C7 as stated: once every call has returned, nothing but the counter is
\* left: no frame and no allocated block.
C7_OnlyCounterPersists ==
    AllIdle => (\A t \in Threads : frame[t] = NoFrame) /\ heap = {}

\* C7 as amended: the buffer, x and the pointer ptr are gone once their call
\* has returned, and a call in progress holds only its own locals; the block
\* memory_issue allocated stays allocated after the call, so the counter and
\* the leaked blocks persist.
C7_LocalsScopedBlocksPersist ==
    /\ \A t \in Threads :
          /\ pc[t] = "idle" => frame[t] = NoFrame
          /\ InString(t) => frame[t].fn = "process_string"
          /\ InBadFn(t) => frame[t].fn = "BAD_FUNCTION_NAME"
          /\ InRace(t) => frame[t].fn = "race_condition"
          /\ pc[t] \in {"mi_malloc", "mi_store", "mi_ret"} =>
                 frame[t].fn = "memory_issue"
    /\ AllIdle => Cardinality(heap) = mi_ok

C7_Witness == AllIdle /\ Started >= 2 /\ heap # {} /\ mi_ok >= 1

\* C8: with no two calls of race_condition overlapping, global_counter starts
\* at 0 and is the number of calls that have made their store: the calls
\* returned, plus the one that has stored and not yet returned.
C8_SequentialCount ==
    global_counter =
        rc_done + Cardinality({t \in Threads : pc[t] = "rc_ret"})

C8_Witness ==
    /\ rc_done >= 2
    /\ global_counter = rc_done
    /\ \E t \in Threads : pc[t] \notin {"idle", "aborted"}

\* Calls of OnceSpec that have made their store.
Stored == {t \in DOMAIN pc : pc[t] = "rc_ret" \/ (pc[t] = "idle" /\ ncalls[t] = 1)}

AllReturned == \A t \in DOMAIN pc : pc[t] = "idle" /\ ncalls[t] = 1

\* C9: N threads call race_condition once each from global_counter = 0.  At
\* every state the counter is at most the number of stores made, and once all
\* calls have returned it is at least 1 and at most N.
C9_RaceBounds ==
    /\ global_counter <= Cardinality(Stored)
    /\ AllReturned =>
           global_counter >= 1 /\ global_counter <= Cardinality(DOMAIN pc)

C9_Witness ==
    AllReturned /\ Cardinality(DOMAIN pc) >= 3 /\ global_counter = 1

\* A call in progress on t that the claim says must return.
MustReturn(t) ==
    \/ InRace(t)
    \/ InBadFn(t)
    \/ InString(t) /\ strlen(frame[t].input) <= BufSize - 1
    \/ pc[t] \in {"mi_store", "mi_ret"} /\ frame[t].ptr # NULL

\* C10: under weak fairness of each thread, every started call of
\* race_condition, of BAD_FUNCTION_NAME, of memory_issue whose allocation
\* succeeded and of process_string with strlen(input) <= 9 returns, whatever
\* the other threads do.
C10_EveryCallReturns ==
    \A t \in Threads : MustReturn(t) ~> (pc[t] = "idle")

====
